---- MODULE Spec2Model ----
(***************************************************************************)
(* A model of scrypto-unit's TestEnv (src/src/lib.rs): the registry of     *)
(* named users and packages with their "current" selections, and the       *)
(* transaction facade built on radix_engine's TransactionExecutor.         *)
(*                                                                         *)
(* The TestEnv fields are the variables users, current_user, packages,     *)
(* current_package and users_pk.  The executor and its ledger are the      *)
(* variables next_key .. nonce_reads.  The variables op .. ret record the   *)
(* last call made on the TestEnv and what it returned; created ..          *)
(* using_addr record what earlier calls returned.                          *)
(*                                                                         *)
(* A Rust panic ends the test that owns the TestEnv: once outcome is       *)
(* "abort" no further call is made.                                        *)
(***************************************************************************)
EXTENDS Integers, Sequences, FiniteSets, TLC

\* ---------------------------------------------------------------- bounds
\* calls of one run that reach the ledger: accounts created, packages
\* published and transactions submitted
MaxCalls == 4

\* ---------------------------------------------------------------- inputs
UserNames == {"alice", "bob"}
PackageNames == {"hello-world", "other"}
\* package binaries handed to publish_package: one that the engine accepts
\* (tests/assets/hello-world) and one that it rejects
Codes == {"hello_world", "garbage"}

\* Option<T>: None is the empty sequence, Some(x) the one-element sequence
None == <<>>
Some(x) == <<x>>

VARIABLES
    users,            \* TestEnv.users: name -> User
    current_user,     \* TestEnv.current_user: Option<User>
    packages,         \* TestEnv.packages: name -> PackageAddress
    current_package,  \* TestEnv.current_package: Option<PackageAddress>
    users_pk,         \* TestEnv.users_pk: account -> private key
    next_key,         \* executor: key pairs minted so far
    next_addr,        \* ledger: addresses allocated so far
    nonce,            \* ledger: the nonce get_nonce returns
    vaults,           \* ledger: account -> (resource -> amount)
    components,       \* ledger: Hello component -> [state, admin_badge]
    code_at,          \* ledger: package address -> published code
    owner,            \* ledger: account -> the public key that controls it
    resources,        \* ledger: the resource addresses that exist
    last_tx,          \* executor: Option of the last transaction submitted
    tx_count,         \* executor: transactions the facade has submitted
    nonce_reads,      \* executor: get_nonce calls the facade has made
    op,               \* the last TestEnv method called
    arg,              \* its name argument, or the record of its arguments
    outcome,          \* "returned" or "abort" ("none" before any call)
    ret,              \* what it returned
    created,          \* name -> the User the last create_user(name) returned
    create_calls,     \* create_user calls made
    dup_name,         \* some create_user call reused a name
    first_published,  \* Option of the first address publish_package stored
    using_called,     \* a using_package call has returned
    using_addr        \* Option of the address the last using_package found

harness == <<users, current_user, packages, current_package, users_pk>>
ledger == <<next_key, next_addr, nonce, vaults, components, code_at, owner,
            resources>>
executor_log == <<last_tx, tx_count, nonce_reads>>
call == <<op, arg, outcome, ret>>
history == <<created, create_calls, dup_name, first_published, using_called,
             using_addr>>
vars == <<harness, ledger, executor_log, call, history>>

\* the empty map
EmptyMap == [x \in {} |-> 0]

\* HashMap::insert: the entry under k is created or overwritten
Insert(m, k, v) == [x \in (DOMAIN m) \cup {k} |-> IF x = k THEN v ELSE m[x]]

\* the return slot of a call: at most one field is Some
NoRet == [user |-> None, addr |-> None, receipt |-> None, amount |-> None]

Alive == outcome # "abort"

\* RADIX_TOKEN, the resource every new account is funded with
RADIX_TOKEN == 0
\* the amount of RADIX_TOKEN a new account holds
FreeXrd == 1000000

\* TestEnv::new
Init ==
    /\ users = EmptyMap
    /\ current_user = None
    /\ packages = EmptyMap
    /\ current_package = None
    /\ users_pk = EmptyMap
    /\ next_key = 0
    /\ next_addr = 0
    /\ nonce = 0
    /\ vaults = EmptyMap
    /\ components = EmptyMap
    /\ code_at = EmptyMap
    /\ owner = EmptyMap
    /\ resources = {RADIX_TOKEN}
    /\ last_tx = None
    /\ tx_count = 0
    /\ nonce_reads = 0
    /\ op = "new"
    /\ arg = ""
    /\ outcome = "none"
    /\ ret = NoRet
    /\ created = EmptyMap
    /\ create_calls = 0
    /\ dup_name = FALSE
    /\ first_published = None
    /\ using_called = FALSE
    /\ using_addr = None

\* ------------------------------------------------------------ the executor

\* the User struct
User(key, account) == [key |-> key, account |-> account]

\* the private half of key pair number k
PrivateKey(k) == [secret_of |-> k]

\* TransactionExecutor::new_account as create_user calls it: a fresh key
\* pair and a fresh account address
new_account == [key |-> next_key + 1,
                private_key |-> PrivateKey(next_key + 1),
                account |-> next_addr + 1]

\* TransactionExecutor::publish_package as publish_package calls it: Ok with
\* a fresh package address, or Err when the engine rejects the code
executor_publish_package(code) ==
    IF code = "hello_world" THEN [ok |-> TRUE, addr |-> next_addr + 1]
    ELSE [ok |-> FALSE, addr |-> 0]

\* ------------------------------------------------- transactions and engine
\* one instruction of a transaction manifest
Instr(kind, target, name, a, resource) ==
    [kind |-> kind, target |-> target, name |-> name, arg |-> a,
     resource |-> resource]

\* TransactionBuilder::new_token_fixed
new_token_fixed(supply) == Instr("new_token_fixed", 0, "", supply, 0)
\* TransactionBuilder::call_function on blueprint "Hello"
call_function_instr(package, function_name) ==
    Instr("call_function", package, function_name, 0, 0)
\* TransactionBuilder::call_method
call_method_instr(component, method_name, a) ==
    Instr("call_method", component, method_name, a, 0)
\* TransactionBuilder::call_method_with_all_resources
call_method_with_all_resources(account, method_name) ==
    Instr("call_method_with_all_resources", account, method_name, 0, 0)
\* TransactionBuilder::withdraw_from_account_by_amount
withdraw_from_account_by_amount(amount, resource, account) ==
    Instr("withdraw", account, "", amount, resource)

\* an instruction's output
Output(kind, value) == [kind |-> kind, value |-> value]

\* amount of resource r in the bucket map w
Held(w, r) == IF r \in DOMAIN w THEN w[r] ELSE 0

\* the bucket map w with amount d of resource r added
Put(w, r, d) == Insert(w, r, Held(w, r) + d)

\* every resource of the worktop w put into the vault map v
PutAll(v, w) ==
    [r \in (DOMAIN v) \cup (DOMAIN w) |-> Held(v, r) + Held(w, r)]

\* the engine state a transaction runs in; signer is the private key the
\* transaction was signed with
Track(signer) ==
    [ok |-> TRUE, signer |-> signer, vaults |-> vaults,
     components |-> components, next_addr |-> next_addr,
     resources |-> resources, worktop |-> EmptyMap, proofs |-> {},
     new_resource_addresses |-> <<>>, new_component_addresses |-> <<>>,
     outputs |-> <<>>]

Fail(t) == [t EXCEPT !.ok = FALSE]

\* the signer may withdraw from, and create proofs on, account a
Authorized(t, a) == t.signer = PrivateKey(owner[a])

\* Hello::instantiate (tests/assets/hello-world): a badge of supply 1 goes
\* to the worktop and a component with state 0 is created
HelloInstantiate(t) ==
    LET badge == t.next_addr + 1
        component == t.next_addr + 2
    IN [t EXCEPT !.next_addr = component,
                 !.resources = @ \cup {badge},
                 !.worktop = Put(@, badge, 1),
                 !.components = Insert(@, component,
                                       [state |-> 0, admin_badge |-> badge]),
                 !.new_resource_addresses = Append(@, badge),
                 !.new_component_addresses = Append(@, component),
                 !.outputs = Append(@, Output("tuple", component))]

\* Hello::update_state and Hello::protected_update_state
HelloUpdateState(t, c, new_state) ==
    [t EXCEPT !.components[c].state = new_state,
              !.outputs = Append(@, Output("u32", t.components[c].state))]

\* one instruction run by the engine
Step(t, i) ==
    IF i.kind = "new_token_fixed" THEN
        IF i.arg < 0 THEN Fail(t)
        ELSE [t EXCEPT !.next_addr = @ + 1,
                       !.resources = @ \cup {t.next_addr + 1},
                       !.worktop = Put(@, t.next_addr + 1, i.arg),
                       !.new_resource_addresses = Append(@, t.next_addr + 1),
                       !.outputs = Append(@, Output("address", t.next_addr + 1))]
    ELSE IF i.kind = "call_function" THEN
        IF i.target \in DOMAIN code_at /\ i.name = "instantiate"
        THEN HelloInstantiate(t)
        ELSE Fail(t)
    ELSE IF i.kind = "call_method_with_all_resources" THEN
        IF i.target \in DOMAIN t.vaults /\ i.name = "deposit_batch"
        THEN [t EXCEPT !.vaults[i.target] = PutAll(@, t.worktop),
                       !.worktop = EmptyMap,
                       !.outputs = Append(@, Output("unit", 0))]
        ELSE Fail(t)
    ELSE IF i.kind = "withdraw" THEN
        IF /\ i.target \in DOMAIN t.vaults
           /\ Authorized(t, i.target)
           /\ i.arg > 0
           /\ Held(t.vaults[i.target], i.resource) >= i.arg
        THEN [t EXCEPT !.vaults[i.target][i.resource] = @ - i.arg,
                       !.worktop = Put(@, i.resource, i.arg),
                       !.outputs = Append(@, Output("bucket", i.resource))]
        ELSE Fail(t)
    ELSE IF i.target \in DOMAIN t.components THEN
        IF i.name = "update_state" THEN HelloUpdateState(t, i.target, i.arg)
        ELSE IF /\ i.name = "protected_update_state"
                /\ t.components[i.target].admin_badge \in t.proofs
             THEN HelloUpdateState(t, i.target, i.arg)
             ELSE Fail(t)
    ELSE IF i.target \in DOMAIN t.vaults THEN
        IF i.name = "balance"
        THEN [t EXCEPT !.outputs =
                  Append(@, Output("decimal", Held(t.vaults[i.target], i.arg)))]
        ELSE IF /\ i.name = "create_proof"
                /\ Authorized(t, i.target)
                /\ Held(t.vaults[i.target], i.arg) > 0
             THEN [t EXCEPT !.proofs = @ \cup {i.arg},
                            !.outputs = Append(@, Output("proof", i.arg))]
             ELSE Fail(t)
    ELSE Fail(t)

\* the instructions run in order; the first failure stops the run
RECURSIVE Run(_, _)
Run(t, instructions) ==
    IF instructions = <<>> \/ ~t.ok THEN t
    ELSE Run(Step(t, Head(instructions)), Tail(instructions))

\* resources left on the worktop fail the transaction
Execute(instructions, signer) ==
    LET t == Run(Track(signer), instructions)
    IN IF t.ok /\ \E r \in DOMAIN t.worktop : t.worktop[r] # 0
       THEN Fail(t) ELSE t

\* the Receipt of a run: a failed run reports no new address
Receipt(t) ==
    [result |-> IF t.ok THEN "ok" ELSE "err",
     new_resource_addresses |->
         IF t.ok THEN t.new_resource_addresses ELSE <<>>,
     new_component_addresses |->
         IF t.ok THEN t.new_component_addresses ELSE <<>>,
     outputs |-> t.outputs]

\* TransactionBuilder::build(executor.get_nonce([user.key])).sign([private_key])
Transaction(instructions, user, private_key) ==
    [instructions |-> instructions, nonce |-> nonce, nonce_of |-> user.key,
     signed_by |-> private_key]

\* TransactionExecutor::validate_and_execute: Err for a transaction that
\* does not validate (malformed arguments), else Ok with the Receipt of the
\* run; only a successful run is committed to the ledger
validate_and_execute(tx, valid) ==
    LET t == Execute(tx.instructions, tx.signed_by) IN
    /\ nonce_reads' = nonce_reads + 1
    /\ tx_count' = tx_count + 1
    /\ last_tx' = Some([tx |-> tx,
                        receipt |-> IF valid THEN Some(Receipt(t)) ELSE None])
    /\ IF valid /\ t.ok
       THEN /\ vaults' = t.vaults
            /\ components' = t.components
            /\ next_addr' = t.next_addr
            /\ resources' = t.resources
            /\ nonce' = nonce + 1
       ELSE UNCHANGED <<vaults, components, next_addr, resources, nonce>>
    /\ UNCHANGED <<next_key, code_at, owner>>

\* ------------------------------------------------------------ the registry
\* the calls that have reached the ledger: one per account, per package and
\* per transaction of the facade
LedgerCalls ==
    Cardinality(DOMAIN vaults) + Cardinality(DOMAIN code_at) + tx_count


\* default_package gone wrong: the last package published becomes current
default_package_last(cur, package_addr) == Some(package_addr)

\* "If first package set as default"
default_package(cur, package_addr) ==
    IF cur = None THEN Some(package_addr) ELSE cur


\* publish_package gone wrong: the default selection is left out
publish_package_no_default(name, code) ==
    /\ Alive
    /\ LedgerCalls < MaxCalls
    /\ op' = "publish_package"
    /\ arg' = name
    /\ ret' = NoRet
    /\ LET r == executor_publish_package(code) IN
       IF r.ok
       THEN /\ outcome' = "returned"
            /\ packages' = Insert(packages, name, r.addr)
            /\ next_addr' = next_addr + 1
            /\ nonce' = nonce + 1
            /\ code_at' = Insert(code_at, r.addr, code)
            /\ first_published' =
                   IF first_published = None THEN Some(r.addr)
                   ELSE first_published
       ELSE /\ outcome' = "abort"
            /\ UNCHANGED <<packages, next_addr, nonce, code_at,
                           first_published>>
    /\ UNCHANGED <<users, current_user, current_package, users_pk, next_key,
                   vaults, components, owner, resources, executor_log, created,
                   create_calls, dup_name, using_called, using_addr>>

\* publish_package gone wrong: a registered name keeps its first address
\* (entry(name).or_insert(package_addr))
publish_package_keep(name, code) ==
    /\ Alive
    /\ LedgerCalls < MaxCalls
    /\ op' = "publish_package"
    /\ arg' = name
    /\ ret' = NoRet
    /\ LET r == executor_publish_package(code) IN
       IF r.ok
       THEN /\ outcome' = "returned"
            /\ packages' = IF name \in DOMAIN packages THEN packages
                           ELSE Insert(packages, name, r.addr)
            /\ current_package' = default_package(current_package, r.addr)
            /\ next_addr' = next_addr + 1
            /\ nonce' = nonce + 1
            /\ code_at' = Insert(code_at, r.addr, code)
            /\ first_published' =
                   IF first_published = None THEN Some(r.addr)
                   ELSE first_published
       ELSE /\ outcome' = "abort"
            /\ UNCHANGED <<packages, current_package, next_addr, nonce,
                           code_at, first_published>>
    /\ UNCHANGED <<users, current_user, users_pk, next_key, vaults,
                   components, owner, resources, executor_log, created,
                   create_calls, dup_name, using_called, using_addr>>

\* TestEnv::publish_package
publish_package(name, code) ==
    /\ Alive
    /\ LedgerCalls < MaxCalls
    /\ op' = "publish_package"
    /\ arg' = name
    /\ ret' = NoRet
    /\ LET r == executor_publish_package(code) IN
       IF r.ok
       THEN /\ outcome' = "returned"
            /\ packages' = Insert(packages, name, r.addr)
            /\ current_package' = default_package(current_package, r.addr)
            /\ next_addr' = next_addr + 1
            /\ nonce' = nonce + 1
            /\ code_at' = Insert(code_at, r.addr, code)
            /\ first_published' =
                   IF first_published = None THEN Some(r.addr)
                   ELSE first_published
       ELSE /\ outcome' = "abort"
            /\ UNCHANGED <<packages, current_package, next_addr, nonce,
                           code_at, first_published>>
    /\ UNCHANGED <<users, current_user, users_pk, next_key, vaults,
                   components, owner, resources, executor_log, created,
                   create_calls, dup_name, using_called, using_addr>>


\* get_package gone wrong: a default address for a name that is not
\* registered (unwrap_or_default)
get_package_or_default(name) ==
    /\ Alive
    /\ op' = "get_package"
    /\ arg' = name
    /\ outcome' = "returned"
    /\ ret' = [NoRet EXCEPT !.addr = IF name \in DOMAIN packages
                                     THEN Some(packages[name]) ELSE Some(0)]
    /\ UNCHANGED <<harness, ledger, executor_log, history>>

\* TestEnv::get_package
get_package(name) ==
    /\ Alive
    /\ op' = "get_package"
    /\ arg' = name
    /\ IF name \in DOMAIN packages
       THEN /\ outcome' = "returned"
            /\ ret' = [NoRet EXCEPT !.addr = Some(packages[name])]
       ELSE /\ outcome' = "abort"
            /\ ret' = NoRet
    /\ UNCHANGED <<harness, ledger, executor_log, history>>

\* TestEnv::using_package
using_package(name) ==
    /\ Alive
    /\ op' = "using_package"
    /\ arg' = name
    /\ ret' = NoRet
    /\ IF name \in DOMAIN packages
       THEN /\ outcome' = "returned"
            /\ current_package' = Some(packages[name])
            /\ using_called' = TRUE
            /\ using_addr' = Some(packages[name])
       ELSE /\ outcome' = "abort"
            /\ UNCHANGED <<current_package, using_called, using_addr>>
    /\ UNCHANGED <<users, current_user, packages, users_pk, ledger,
                   executor_log, created, create_calls, dup_name,
                   first_published>>


\* default_user gone wrong: the last user created becomes current
default_user_last(cur, usr) == Some(usr)

\* "If first user set as default"
default_user(cur, usr) ==
    IF cur = None THEN Some(usr) ELSE cur


\* create_user gone wrong: the insertion into users sits in the None arm of
\* the default selection, so only the first user is registered
create_user_insert_when_unset(name) ==
    /\ Alive
    /\ LedgerCalls < MaxCalls
    /\ LET a == new_account
           usr == User(a.key, a.account)
       IN /\ users' = IF current_user = None THEN Insert(users, name, usr)
                      ELSE users
          /\ users_pk' = Insert(users_pk, a.account, a.private_key)
          /\ current_user' = default_user(current_user, usr)
          /\ next_key' = next_key + 1
          /\ next_addr' = next_addr + 1
          /\ nonce' = nonce + 1
          /\ vaults' = Insert(vaults, a.account, (RADIX_TOKEN :> FreeXrd))
          /\ owner' = Insert(owner, a.account, a.key)
          /\ ret' = [NoRet EXCEPT !.user = Some(usr)]
          /\ created' = Insert(created, name, usr)
    /\ op' = "create_user"
    /\ arg' = name
    /\ outcome' = "returned"
    /\ create_calls' = create_calls + 1
    /\ dup_name' = (dup_name \/ name \in DOMAIN users)
    /\ UNCHANGED <<packages, current_package, components, code_at,
                   resources, executor_log, first_published, using_called,
                   using_addr>>

\* create_user gone wrong: the private key is stored in the None arm of the
\* default selection, so only the first user's key is kept
create_user_pk_when_unset(name) ==
    /\ Alive
    /\ LedgerCalls < MaxCalls
    /\ LET a == new_account
           usr == User(a.key, a.account)
       IN /\ users' = Insert(users, name, usr)
          /\ users_pk' = IF current_user = None
                         THEN Insert(users_pk, a.account, a.private_key)
                         ELSE users_pk
          /\ current_user' = default_user(current_user, usr)
          /\ next_key' = next_key + 1
          /\ next_addr' = next_addr + 1
          /\ nonce' = nonce + 1
          /\ vaults' = Insert(vaults, a.account, (RADIX_TOKEN :> FreeXrd))
          /\ owner' = Insert(owner, a.account, a.key)
          /\ ret' = [NoRet EXCEPT !.user = Some(usr)]
          /\ created' = Insert(created, name, usr)
    /\ op' = "create_user"
    /\ arg' = name
    /\ outcome' = "returned"
    /\ create_calls' = create_calls + 1
    /\ dup_name' = (dup_name \/ name \in DOMAIN users)
    /\ UNCHANGED <<packages, current_package, components, code_at,
                   resources, executor_log, first_published, using_called,
                   using_addr>>

\* TestEnv::create_user
create_user(name) ==
    /\ Alive
    /\ LedgerCalls < MaxCalls
    /\ LET a == new_account
           usr == User(a.key, a.account)
       IN /\ users' = Insert(users, name, usr)
          /\ users_pk' = Insert(users_pk, a.account, a.private_key)
          /\ current_user' = default_user(current_user, usr)
          /\ next_key' = next_key + 1
          /\ next_addr' = next_addr + 1
          /\ nonce' = nonce + 1
          /\ vaults' = Insert(vaults, a.account, (RADIX_TOKEN :> FreeXrd))
          /\ owner' = Insert(owner, a.account, a.key)
          /\ ret' = [NoRet EXCEPT !.user = Some(usr)]
          /\ created' = Insert(created, name, usr)
    /\ op' = "create_user"
    /\ arg' = name
    /\ outcome' = "returned"
    /\ create_calls' = create_calls + 1
    /\ dup_name' = (dup_name \/ name \in DOMAIN users)
    /\ UNCHANGED <<packages, current_package, components, code_at,
                   resources, executor_log, first_published, using_called,
                   using_addr>>


\* get_user gone wrong: the current user is returned for a registered name
get_user_current(name) ==
    /\ Alive
    /\ op' = "get_user"
    /\ arg' = name
    /\ IF name \in DOMAIN users
       THEN /\ outcome' = "returned"
            /\ ret' = [NoRet EXCEPT !.user = current_user]
       ELSE /\ outcome' = "abort"
            /\ ret' = NoRet
    /\ UNCHANGED <<harness, ledger, executor_log, history>>

\* TestEnv::get_user
get_user(name) ==
    /\ Alive
    /\ op' = "get_user"
    /\ arg' = name
    /\ IF name \in DOMAIN users
       THEN /\ outcome' = "returned"
            /\ ret' = [NoRet EXCEPT !.user = Some(users[name])]
       ELSE /\ outcome' = "abort"
            /\ ret' = NoRet
    /\ UNCHANGED <<harness, ledger, executor_log, history>>


\* acting_as gone wrong: the selection is made only when no user is current
acting_as_when_unset(name) ==
    /\ Alive
    /\ op' = "acting_as"
    /\ arg' = name
    /\ ret' = NoRet
    /\ IF name \in DOMAIN users
       THEN /\ outcome' = "returned"
            /\ current_user' = default_user(current_user, users[name])
       ELSE /\ outcome' = "abort"
            /\ UNCHANGED current_user
    /\ UNCHANGED <<users, packages, current_package, users_pk, ledger,
                   executor_log, history>>

\* TestEnv::acting_as
acting_as(name) ==
    /\ Alive
    /\ op' = "acting_as"
    /\ arg' = name
    /\ ret' = NoRet
    /\ IF name \in DOMAIN users
       THEN /\ outcome' = "returned"
            /\ current_user' = Some(User(users[name].key, users[name].account))
       ELSE /\ outcome' = "abort"
            /\ UNCHANGED current_user
    /\ UNCHANGED <<users, packages, current_package, users_pk, ledger,
                   executor_log, history>>

\* the result of TestEnv::get_current_user: Some(<<user, private key>>), or
\* None where it panics
current_user_and_key ==
    IF current_user = None THEN None
    ELSE IF current_user[1].account \in DOMAIN users_pk
         THEN Some(<<current_user[1], users_pk[current_user[1].account]>>)
         ELSE None

\* TestEnv::get_current_user
get_current_user ==
    /\ Alive
    /\ op' = "get_current_user"
    /\ arg' = ""
    /\ IF current_user_and_key # None
       THEN /\ outcome' = "returned"
            /\ ret' = [NoRet EXCEPT !.user = Some(current_user_and_key[1][1])]
       ELSE /\ outcome' = "abort"
            /\ ret' = NoRet
    /\ UNCHANGED <<harness, ledger, executor_log, history>>


\* get_current_package gone wrong: a default address when no package is
\* current (unwrap_or_default)
current_package_or_default ==
    IF current_package = None THEN Some(0) ELSE current_package

\* the result of TestEnv::get_current_package: None where it panics
current_package_or_fail == current_package

\* TestEnv::get_current_package
get_current_package ==
    /\ Alive
    /\ op' = "get_current_package"
    /\ arg' = ""
    /\ IF current_package_or_fail # None
       THEN /\ outcome' = "returned"
            /\ ret' = [NoRet EXCEPT !.addr = current_package_or_fail]
       ELSE /\ outcome' = "abort"
            /\ ret' = NoRet
    /\ UNCHANGED <<harness, ledger, executor_log, history>>

Registry ==
    \/ \E name \in PackageNames, code \in Codes : publish_package(name, code)
    \/ \E name \in PackageNames : get_package(name)
    \/ \E name \in PackageNames : using_package(name)
    \/ \E name \in UserNames : create_user(name)
    \/ \E name \in UserNames : get_user(name)
    \/ \E name \in UserNames : acting_as(name)
    \/ get_current_user
    \/ get_current_package

\* -------------------------------------------------------------- the facade
\* the u32 the tests pass to update_state
NewState == 42
Supplies == {10, -1}
FunctionNames == {"instantiate", "instantiate_other"}
MethodNames == {"update_state", "protected_update_state"}
Amounts == {4, 11}

\* a facade method panics before it has built anything
AbortEarly ==
    /\ outcome' = "abort"
    /\ ret' = NoRet
    /\ UNCHANGED <<ledger, executor_log>>

\* the Receipt the executor returned for the transaction just submitted
\* (None: a validation error)
executor_result == last_tx'[1].receipt


\* the return gone wrong: the Receipt's result is unwrapped too
return_receipt_expect_ok ==
    IF executor_result = None \/ executor_result[1].result = "err"
    THEN /\ outcome' = "abort"
         /\ ret' = NoRet
    ELSE /\ outcome' = "returned"
         /\ ret' = [NoRet EXCEPT !.receipt = executor_result]

\* "let receipt = ....unwrap(); receipt"
return_receipt ==
    IF executor_result = None
    THEN /\ outcome' = "abort"
         /\ ret' = NoRet
    ELSE /\ outcome' = "returned"
         /\ ret' = [NoRet EXCEPT !.receipt = executor_result]

\* TestEnv::create_token
create_token(max_supply) ==
    /\ Alive
    /\ op' = "create_token"
    /\ arg' = [max_supply |-> max_supply]
    /\ IF current_user_and_key = None THEN AbortEarly
       ELSE /\ LedgerCalls < MaxCalls
            /\ LET user == current_user_and_key[1][1]
                   private_key == current_user_and_key[1][2]
               IN validate_and_execute(
                      Transaction(<<new_token_fixed(max_supply),
                                    call_method_with_all_resources(
                                        user.account, "deposit_batch")>>,
                                  user, private_key), TRUE)
            /\ LET receipt == executor_result[1] IN
               IF Len(receipt.new_resource_addresses) = 0
               THEN /\ outcome' = "abort"
                    /\ ret' = NoRet
               ELSE /\ outcome' = "returned"
                    /\ ret' = [NoRet EXCEPT
                                 !.addr = Some(receipt.new_resource_addresses[1])]
    /\ UNCHANGED <<harness, history>>

\* TestEnv::call_function
call_function(function_name, params_valid) ==
    /\ Alive
    /\ op' = "call_function"
    /\ arg' = ""
    /\ IF current_user_and_key = None THEN AbortEarly
       ELSE IF current_package_or_fail = None THEN AbortEarly
       ELSE /\ LedgerCalls < MaxCalls
            /\ LET user == current_user_and_key[1][1]
                   private_key == current_user_and_key[1][2]
                   package == current_package_or_fail[1]
               IN validate_and_execute(
                      Transaction(<<call_function_instr(package, function_name),
                                    call_method_with_all_resources(
                                        user.account, "deposit_batch")>>,
                                  user, private_key), params_valid)
            /\ return_receipt
    /\ UNCHANGED <<harness, history>>

\* TestEnv::call_method
call_method(component, method_name) ==
    /\ Alive
    /\ op' = "call_method"
    /\ arg' = ""
    /\ IF current_user_and_key = None THEN AbortEarly
       ELSE /\ LedgerCalls < MaxCalls
            /\ LET user == current_user_and_key[1][1]
                   private_key == current_user_and_key[1][2]
               IN validate_and_execute(
                      Transaction(<<call_method_instr(component, method_name,
                                                      NewState),
                                    call_method_with_all_resources(
                                        user.account, "deposit_batch")>>,
                                  user, private_key), TRUE)
            /\ return_receipt
    /\ UNCHANGED <<harness, history>>

\* call_method_auth gone wrong: the proof is created after the method call
call_method_auth_proof_late(component, method_name, admin_badge) ==
    /\ Alive
    /\ op' = "call_method_auth"
    /\ arg' = [component |-> component, method_name |-> method_name,
               admin_badge |-> admin_badge]
    /\ IF current_user_and_key = None THEN AbortEarly
       ELSE /\ LedgerCalls < MaxCalls
            /\ LET user == current_user_and_key[1][1]
                   private_key == current_user_and_key[1][2]
               IN validate_and_execute(
                      Transaction(<<call_method_instr(component, method_name,
                                                      NewState),
                                    call_method_instr(user.account,
                                                      "create_proof",
                                                      admin_badge),
                                    call_method_with_all_resources(
                                        user.account, "deposit_batch")>>,
                                  user, private_key), TRUE)
            /\ return_receipt
    /\ UNCHANGED <<harness, history>>

\* TestEnv::call_method_auth
call_method_auth(component, method_name, admin_badge) ==
    /\ Alive
    /\ op' = "call_method_auth"
    /\ arg' = [component |-> component, method_name |-> method_name,
               admin_badge |-> admin_badge]
    /\ IF current_user_and_key = None THEN AbortEarly
       ELSE /\ LedgerCalls < MaxCalls
            /\ LET user == current_user_and_key[1][1]
                   private_key == current_user_and_key[1][2]
               IN validate_and_execute(
                      Transaction(<<call_method_instr(user.account,
                                                      "create_proof",
                                                      admin_badge),
                                    call_method_instr(component, method_name,
                                                      NewState),
                                    call_method_with_all_resources(
                                        user.account, "deposit_batch")>>,
                                  user, private_key), TRUE)
            /\ return_receipt
    /\ UNCHANGED <<harness, history>>

\* get_amount_for_rd gone wrong: the balance asked for is always that of
\* RADIX_TOKEN
get_amount_for_rd_xrd(component_address, resource_address) ==
    /\ Alive
    /\ op' = "get_amount_for_rd"
    /\ arg' = [component_address |-> component_address,
               resource_address |-> resource_address]
    /\ IF current_user_and_key = None THEN AbortEarly
       ELSE /\ LedgerCalls < MaxCalls
            /\ LET user == current_user_and_key[1][1]
                   private_key == current_user_and_key[1][2]
               IN validate_and_execute(
                      Transaction(<<call_method_instr(component_address,
                                                      "balance",
                                                      RADIX_TOKEN)>>,
                                  user, private_key), TRUE)
            /\ LET receipt_b == executor_result[1] IN
               IF /\ Len(receipt_b.outputs) > 0
                  /\ receipt_b.outputs[1].kind = "decimal"
               THEN /\ outcome' = "returned"
                    /\ ret' = [NoRet EXCEPT
                                 !.amount = Some(receipt_b.outputs[1].value)]
               ELSE /\ outcome' = "abort"
                    /\ ret' = NoRet
    /\ UNCHANGED <<harness, history>>

\* TestEnv::get_amount_for_rd
get_amount_for_rd(component_address, resource_address) ==
    /\ Alive
    /\ op' = "get_amount_for_rd"
    /\ arg' = [component_address |-> component_address,
               resource_address |-> resource_address]
    /\ IF current_user_and_key = None THEN AbortEarly
       ELSE /\ LedgerCalls < MaxCalls
            /\ LET user == current_user_and_key[1][1]
                   private_key == current_user_and_key[1][2]
               IN validate_and_execute(
                      Transaction(<<call_method_instr(component_address,
                                                      "balance",
                                                      resource_address)>>,
                                  user, private_key), TRUE)
            /\ LET receipt_b == executor_result[1] IN
               IF /\ Len(receipt_b.outputs) > 0
                  /\ receipt_b.outputs[1].kind = "decimal"
               THEN /\ outcome' = "returned"
                    /\ ret' = [NoRet EXCEPT
                                 !.amount = Some(receipt_b.outputs[1].value)]
               ELSE /\ outcome' = "abort"
                    /\ ret' = NoRet
    /\ UNCHANGED <<harness, history>>

\* transfer_resource gone wrong: the deposit goes to the acting user, as in
\* the other facade methods
transfer_resource_to_self(amount, resource_to_send, to_user) ==
    /\ Alive
    /\ op' = "transfer_resource"
    /\ arg' = [amount |-> amount, resource_to_send |-> resource_to_send,
               to_user |-> to_user]
    /\ IF current_user_and_key = None THEN AbortEarly
       ELSE /\ LedgerCalls < MaxCalls
            /\ LET user == current_user_and_key[1][1]
                   private_key == current_user_and_key[1][2]
               IN validate_and_execute(
                      Transaction(<<withdraw_from_account_by_amount(
                                        amount, resource_to_send, user.account),
                                    call_method_with_all_resources(
                                        user.account, "deposit_batch")>>,
                                  user, private_key), TRUE)
            /\ return_receipt
    /\ UNCHANGED <<harness, history>>

\* TestEnv::transfer_resource
transfer_resource(amount, resource_to_send, to_user) ==
    /\ Alive
    /\ op' = "transfer_resource"
    /\ arg' = [amount |-> amount, resource_to_send |-> resource_to_send,
               to_user |-> to_user]
    /\ IF current_user_and_key = None THEN AbortEarly
       ELSE /\ LedgerCalls < MaxCalls
            /\ LET user == current_user_and_key[1][1]
                   private_key == current_user_and_key[1][2]
               IN validate_and_execute(
                      Transaction(<<withdraw_from_account_by_amount(
                                        amount, resource_to_send, user.account),
                                    call_method_with_all_resources(
                                        to_user.account, "deposit_batch")>>,
                                  user, private_key), TRUE)
            /\ return_receipt
    /\ UNCHANGED <<harness, history>>

\* the addresses and users a test can have in hand
KnownComponents == (DOMAIN components) \cup (DOMAIN vaults)
KnownUsers == {created[n] : n \in DOMAIN created}

Facade ==
    \/ \E s \in Supplies : create_token(s)
    \/ \E f \in FunctionNames, v \in BOOLEAN : call_function(f, v)
    \/ \E c \in DOMAIN components, m \in MethodNames : call_method(c, m)
    \/ \E c \in DOMAIN components, m \in MethodNames, b \in resources :
           call_method_auth(c, m, b)
    \/ \E c \in KnownComponents, r \in resources : get_amount_for_rd(c, r)
    \/ \E a \in Amounts, r \in resources, u \in KnownUsers :
           transfer_resource(a, r, u)

Next == Registry \/ Facade

Spec == Init /\ [][Next]_vars

\* ================================================================= claims

\* C1: after create_user calls with pairwise distinct names, the registry
\* holds one entry per call, each entry is the User that create_user
\* returned for its name, and get_user(n) returns that User.
C1_DistinctNamesRegistered ==
    ~dup_name =>
        /\ Cardinality(DOMAIN users) = create_calls
        /\ DOMAIN users = DOMAIN created
        /\ \A n \in DOMAIN created : users[n] = created[n]
        /\ (op = "get_user" /\ outcome = "returned") =>
               ret.user = Some(created[arg])

\* two distinct names were created and get_user has returned one of them
C1_Witness ==
    /\ ~dup_name
    /\ create_calls = 2
    /\ op = "get_user"
    /\ outcome = "returned"

\* C2: get_user and get_package abort on a name that is not registered,
\* get_current_user and get_current_package abort on an unset selection,
\* and an aborted call returns nothing.
C2_MissingAborts ==
    /\ (op = "get_user" /\ arg \notin DOMAIN users) =>
           (outcome = "abort" /\ ret = NoRet)
    /\ (op = "get_package" /\ arg \notin DOMAIN packages) =>
           (outcome = "abort" /\ ret = NoRet)
    /\ (op = "get_current_user" /\ current_user = None) =>
           (outcome = "abort" /\ ret = NoRet)
    /\ (op = "get_current_package" /\ current_package = None) =>
           (outcome = "abort" /\ ret = NoRet)

\* get_package was called with a name that is not registered while another
\* name is
C2_Witness ==
    /\ op = "get_package"
    /\ arg \notin DOMAIN packages
    /\ DOMAIN packages # {}

\* C3: the first create_user makes the user it returns current, a later
\* create_user leaves current_user alone, and once a user is current only
\* acting_as changes it.
C3_FirstUserWins ==
    [][/\ (op' = "create_user" /\ current_user = None) =>
              current_user' = ret'.user
       /\ (op' = "create_user" /\ current_user # None) =>
              current_user' = current_user
       /\ (current_user # None /\ current_user' # current_user) =>
              op' = "acting_as"]_vars

\* a second create_user has returned a user that is not the current one
C3_Witness ==
    /\ op = "create_user"
    /\ create_calls = 2
    /\ current_user # ret.user

\* C4: after acting_as(n) returns, the current user is the User registered
\* under n, the one the last create_user(n) returned.
C4_ActingAsSelects ==
    (op = "acting_as" /\ outcome = "returned") =>
        /\ current_user = Some(users[arg])
        /\ current_user = Some(created[arg])

\* acting_as has switched from the first user to the second
C4_Witness ==
    /\ op = "acting_as"
    /\ outcome = "returned"
    /\ current_user[1].key = 2

C6_JustPublishedIsCurrent ==
    (op = "publish_package" /\ outcome = "returned") =>
        current_package = Some(packages[arg])

\* C6 amended: the first publish_package (no package is current yet) makes
\* the package it published current, a later one leaves current_package
\* alone, and call_function targets the current package.
C6_FirstPublishedIsCurrent ==
    [][/\ (op' = "publish_package" /\ outcome' = "returned"
             /\ current_package = None) =>
              current_package' = Some(packages'[arg'])
       /\ (op' = "publish_package" /\ current_package # None) =>
              current_package' = current_package
       /\ (op' = "call_function" /\ tx_count' # tx_count) =>
              Some(last_tx'[1].tx.instructions[1].target) = current_package]_vars

\* call_function has run on the package of the only publish_package, with no
\* using_package call
C6_Witness ==
    /\ op = "call_function"
    /\ outcome = "returned"
    /\ ret.receipt[1].result = "ok"
    /\ ~using_called
    /\ Cardinality(DOMAIN code_at) = 1

\* C7 as stated: no operation, create_user included, changes the User
\* registered under a name.
C7_UserImmutable ==
    [][\A n \in DOMAIN users :
           n \in DOMAIN users' /\ users'[n] = users[n]]_vars

\* C7 amended: only create_user(n) changes the User registered under n, and
\* get_user(n) returns the registered User.
C7_UserImmutableUnlessRecreated ==
    [][/\ \A n \in DOMAIN users :
              ~(op' = "create_user" /\ arg' = n) =>
                  (n \in DOMAIN users' /\ users'[n] = users[n])
       /\ (op' = "get_user" /\ outcome' = "returned") =>
              ret'.user = Some(users[arg'])]_vars

\* get_user has returned a user after a transaction of the facade and the
\* creation of another user
C7_Witness ==
    /\ op = "get_user"
    /\ outcome = "returned"
    /\ tx_count > 0
    /\ create_calls = 2
    /\ ~dup_name

\* C8: publish_package under a registered name stores the newly published
\* address under it and adds no name; get_package returns the stored address.
C8_RepublishOverwrites ==
    [][/\ (op' = "publish_package" /\ outcome' = "returned"
             /\ arg' \in DOMAIN packages) =>
              /\ packages'[arg'] \in (DOMAIN code_at') \ (DOMAIN code_at)
              /\ packages'[arg'] # packages[arg']
              /\ DOMAIN packages' = DOMAIN packages
       /\ (op' = "get_package" /\ outcome' = "returned") =>
              ret'.addr = Some(packages[arg'])]_vars

\* get_package has returned the second address published under one name
C8_Witness ==
    /\ op = "get_package"
    /\ outcome = "returned"
    /\ Cardinality(DOMAIN code_at) = 2
    /\ Cardinality(DOMAIN packages) = 1
    /\ ret.addr = Some(next_addr)

ReceiptOps ==
    {"call_function", "call_method", "call_method_auth", "transfer_resource"}

\* C9: when the execution of its transaction fails, a Receipt-returning
\* facade method returns the executor's Receipt as it is and leaves the
\* registries and the selections alone.
C9_FailureReturnedInReceipt ==
    [][(/\ op' \in ReceiptOps
        /\ tx_count' # tx_count
        /\ last_tx'[1].receipt # None
        /\ last_tx'[1].receipt[1].result = "err") =>
           /\ outcome' = "returned"
           /\ ret'.receipt = last_tx'[1].receipt
           /\ harness' = harness]_vars

\* transfer_resource has returned the Receipt of a failed withdrawal
C9_Witness ==
    /\ op = "transfer_resource"
    /\ outcome = "returned"
    /\ ret.receipt[1].result = "err"

FacadeOps ==
    {"create_token", "call_function", "call_method", "call_method_auth",
     "transfer_resource"}

C12_TransferConserves ==
    [][(op' = "transfer_resource" /\ tx_count' # tx_count) =>
           LET sender == current_user[1].account
               recipient == arg'.to_user.account
               A == arg'.amount
               r == arg'.resource_to_send
               Delta(a, q) ==
                   IF q # r THEN 0
                   ELSE (IF a = recipient THEN A ELSE 0)
                        - (IF a = sender THEN A ELSE 0)
           IN /\ outcome' = "returned"
              /\ DOMAIN vaults' = DOMAIN vaults
              /\ IF Held(vaults[sender], r) >= A
                 THEN /\ ret'.receipt[1].result = "ok"
                      /\ \A a \in DOMAIN vaults, q \in resources :
                             Held(vaults'[a], q) =
                                 Held(vaults[a], q) + Delta(a, q)
                 ELSE /\ ret'.receipt[1].result = "err"
                      /\ vaults' = vaults]_vars

\* a created token has been transferred to another user's account
C12_Witness ==
    /\ op = "transfer_resource"
    /\ outcome = "returned"
    /\ ret.receipt[1].result = "ok"
    /\ arg.resource_to_send # RADIX_TOKEN
    /\ arg.to_user.account # current_user[1].account

\* a transfer of more than the acting user's positive balance of a created
\* token has failed
C12_WitnessInsufficient ==
    /\ op = "transfer_resource"
    /\ outcome = "returned"
    /\ ret.receipt[1].result = "err"
    /\ arg.resource_to_send # RADIX_TOKEN
    /\ Held(vaults[current_user[1].account], arg.resource_to_send) > 0

\* C13: when create_token(S) returns resource address r, the acting user's
\* account holds exactly S of r, and a get_amount_for_rd on that account
\* and r made next returns S.
C13_TokenSupplyInAccount ==
    [][/\ (op' = "create_token" /\ outcome' = "returned") =>
              /\ ret'.addr[1] \notin resources
              /\ Held(vaults'[current_user[1].account], ret'.addr[1]) =
                     arg'.max_supply
       /\ (/\ op = "create_token" /\ outcome = "returned"
           /\ op' = "get_amount_for_rd"
           /\ arg'.component_address = current_user[1].account
           /\ arg'.resource_address = ret.addr[1]) =>
              /\ outcome' = "returned"
              /\ ret'.amount = Some(arg.max_supply)]_vars

\* the balance of a token has been read right after its creation, by a user
\* who is not the first one
C13_Witness ==
    /\ op = "get_amount_for_rd"
    /\ outcome = "returned"
    /\ ret.amount = Some(10)
    /\ arg.component_address = current_user[1].account
    /\ current_user[1].key = 2

\* the component or account at address c holds no vault of resource r: an
\* account that never received r, or a Hello component, which has no vault
NoVault(c, r) ==
    \/ (c \in DOMAIN vaults /\ r \notin DOMAIN vaults[c])
    \/ c \in DOMAIN components

\* C14: get_amount_for_rd on a component or account that holds no vault of
\* the resource returns zero and does not abort.
C14_MissingVaultIsZero ==
    [][(/\ op' = "get_amount_for_rd"
        /\ tx_count' # tx_count
        /\ NoVault(arg'.component_address, arg'.resource_address)) =>
           /\ outcome' = "returned"
           /\ ret'.amount = Some(0)]_vars

\* C14 on accounts alone: an account without a vault of the resource
\* answers zero
C14_MissingVaultIsZeroOnAccounts ==
    [][(/\ op' = "get_amount_for_rd"
        /\ tx_count' # tx_count
        /\ arg'.component_address \in DOMAIN vaults
        /\ arg'.resource_address
               \notin DOMAIN vaults[arg'.component_address]) =>
           /\ outcome' = "returned"
           /\ ret'.amount = Some(0)]_vars

\* C16: create_token and get_amount_for_rd do not abort when the execution
\* of their transaction fails.
C16_FailureNeverAborts ==
    [][(/\ op' \in {"create_token", "get_amount_for_rd"}
        /\ tx_count' # tx_count
        /\ last_tx'[1].receipt[1].result = "err") =>
           outcome' = "returned"]_vars

\* C15: the transaction call_method_auth submits has three instructions, in
\* this order: create_proof of the badge on the acting user's account, the
\* method call on the target component, and the deposit of all resources
\* into the acting user's account.
C15_ProofCallDeposit ==
    (op = "call_method_auth" /\ current_user # None) =>
        /\ last_tx # None
        /\ last_tx[1].tx.instructions =
               <<call_method_instr(current_user[1].account, "create_proof",
                                   arg.admin_badge),
                 call_method_instr(arg.component, arg.method_name, NewState),
                 call_method_with_all_resources(current_user[1].account,
                                                "deposit_batch")>>

\* the protected method of a Hello component has run on the proof of its
\* badge
C15_Witness ==
    /\ op = "call_method_auth"
    /\ outcome = "returned"
    /\ ret.receipt[1].result = "ok"
    /\ arg.method_name = "protected_update_state"

\* C17: whenever a user is current, users_pk holds under that user's account
\* the private half of the key pair minted with the account, which is the
\* pair of the user's public key; get_current_user then returns, and every
\* transaction of the facade asks the nonce for, and is signed by, the user
\* who is current when the method is called.
C17_SignedByCurrentUser ==
    [][/\ current_user' # None =>
              LET a == current_user'[1].account IN
              /\ a \in DOMAIN users_pk'
              /\ a \in DOMAIN owner'
              /\ owner'[a] = current_user'[1].key
              /\ users_pk'[a] = PrivateKey(owner'[a])
       /\ (op' = "get_current_user" /\ current_user # None) =>
              (outcome' = "returned" /\ ret'.user = current_user)
       /\ tx_count' # tx_count =>
              /\ current_user # None
              /\ last_tx'[1].tx.signed_by = PrivateKey(current_user[1].key)
              /\ last_tx'[1].tx.nonce_of = current_user[1].key]_vars

\* a transaction has been signed by the second user after acting_as
C17_Witness ==
    /\ tx_count > 0
    /\ op \in {"create_token", "call_function", "call_method",
                "call_method_auth", "transfer_resource", "get_amount_for_rd"}
    /\ current_user # None
    /\ current_user[1].key = 2
    /\ last_tx[1].tx.signed_by = PrivateKey(2)

====
